---- MODULE Spec2Model ----
(***************************************************************************)
(* Model of api/webhook.js: the first Telegram webhook handler.  One       *)
(* invocation of handler(req, res) is followed from its entry to the       *)
(* point where its promise settles.  The handler runs to completion        *)
(* between its await points, so each action is one such run.               *)
(***************************************************************************)
EXTENDS Integers, Sequences, FiniteSets

(* Bound on the number of whitespace characters put before and after an    *)
(* invoice payload.                                                        *)
MaxPad == 1

---------------------------------------------------------------------------
(* JavaScript values.  An object is a record of its properties; a property *)
(* mapped to Undefined is an absent property (JSON never carries           *)
(* undefined, and JSON.stringify drops such properties).  A string is a    *)
(* sequence of one-character strings.                                      *)

Undefined == [t |-> "undefined"]
Null == [t |-> "null"]
Num(n) == [t |-> "number", n |-> n]
Bool(b) == [t |-> "boolean", b |-> b]
Str(s) == [t |-> "string", s |-> s]
Obj(f) == [t |-> "object", f |-> f]
Arr == [t |-> "array"]

(* typeof v *)
Typeof(v) ==
  IF v.t \in {"object", "array", "null"} THEN "object" ELSE v.t

(* ToBoolean(v), as used by !v, v || w and if (v) *)
Truthy(v) ==
  CASE v.t = "undefined" -> FALSE
    [] v.t = "null" -> FALSE
    [] v.t = "boolean" -> v.b
    [] v.t = "number" -> v.n # 0
    [] v.t = "string" -> Len(v.s) > 0
    [] OTHER -> TRUE

(* v.k for a v that is neither null nor undefined *)
Get(v, k) ==
  IF v.t = "object" /\ k \in DOMAIN v.f THEN v.f[k] ELSE Undefined

(* a || b *)
OrElse(a, b) == IF Truthy(a) THEN a ELSE b

---------------------------------------------------------------------------
(* Strings *)

WhiteSpace == {" ", "\t", "\n"}

RECURSIVE TrimStart(_)
TrimStart(s) ==
  IF Len(s) > 0 /\ Head(s) \in WhiteSpace THEN TrimStart(Tail(s)) ELSE s

RECURSIVE TrimEnd(_)
TrimEnd(s) ==
  IF Len(s) > 0 /\ s[Len(s)] \in WhiteSpace
  THEN TrimEnd(SubSeq(s, 1, Len(s) - 1))
  ELSE s

(* A trim that was left out *)
NoTrim(s) == s

(* String.prototype.trim *)
Trim(s) == TrimEnd(TrimStart(s))

(* String.prototype.startsWith *)
StartsWith(s, p) == Len(s) >= Len(p) /\ SubSeq(s, 1, Len(p)) = p

UpperChar(c) ==
  CASE c = "g" -> "G" [] c = "e" -> "E" [] c = "t" -> "T"
    [] c = "p" -> "P" [] c = "o" -> "O" [] c = "s" -> "S"
    [] c = "u" -> "U" [] OTHER -> c

(* A method compared as it was sent *)
ToUpperCaseAsSent(s) == s

(* String.prototype.toUpperCase *)
ToUpperCase(s) == [i \in 1..Len(s) |-> UpperChar(s[i])]

PremiumPrefix == <<"p", "r", "e", "m", "i", "u", "m", "_">>

(* The fixed Russian text of body.error_message ("wrong invoice, use the   *)
(* Buy Premium button of the bot"), named here in ASCII.                   *)
ErrorMessage == Str(<<"wrong-invoice-text">>)

---------------------------------------------------------------------------
(* JSON text is a sequence of lexical items: whitespace, the text of one   *)
(* value, or characters that are not JSON.                                 *)

Ws == [k |-> "ws"]
Junk == [k |-> "junk"]
Val(v) == [k |-> "val", v |-> v]

(* JSON.stringify(v): the text of v, without whitespace *)
JSONstringify(v) == <<Val(v)>>

(* JSON.parse(text): the value when the text is one value surrounded by    *)
(* optional whitespace, a SyntaxError otherwise                            *)
JSONparse(text) ==
  LET items == SelectSeq(text, LAMBDA x : x.k # "ws")
  IN IF Len(items) = 1 /\ items[1].k = "val"
     THEN [threw |-> FALSE, v |-> items[1].v]
     ELSE [threw |-> TRUE, v |-> Undefined]

---------------------------------------------------------------------------
(* The requests the handler is invoked with *)

Pad(n) == [i \in 1..n |-> " "]

PayloadCores ==
  { <<>>,
    PremiumPrefix,
    PremiumPrefix \o <<"1", "2", "3">>,
    <<"o", "t", "h", "e", "r">>,
    <<"p", "r", "e", "m", "i", "u", "m">>,
    <<"x">> \o PremiumPrefix }

PayloadStrings ==
  { Pad(l) \o c \o Pad(r) : l \in 0..MaxPad, r \in 0..MaxPad, c \in PayloadCores }

InvoicePayloads ==
  {Undefined, Null, Num(0), Num(123), Bool(TRUE)}
    \cup { Str(s) : s \in PayloadStrings }

QueryIds == {Undefined, Str(<<"q", "1">>), Num(7)}

PreCheckoutQueries ==
  {Undefined, Null, Str(<<>>), Bool(TRUE)}
    \cup { Obj([id |-> i, invoice_payload |-> p]) :
             i \in QueryIds, p \in InvoicePayloads }

UpdateIds == {Undefined, Num(0), Str(<<"0">>), Num(5), Str(<<"5">>)}

Messages == {Undefined, Str(<<"h", "i">>)}

Updates ==
  { Obj([update_id |-> u, pre_checkout_query |-> q, message |-> m]) :
      u \in UpdateIds, q \in PreCheckoutQueries, m \in Messages }

(* JSON values that are not strings, and all JSON values *)
NonStrings == Updates \cup {Null, Num(5), Bool(TRUE), Arr}
JsonValues == NonStrings \cup {Str(<<"a">>)}

Texts ==
  { JSONstringify(v) : v \in JsonValues }
    \cup { <<Ws>> \o JSONstringify(v) \o <<Ws>> : v \in JsonValues }
    \cup { <<>>, <<Ws>>, <<Junk>>, <<Val(Null), Junk>>, <<Val(Arr), Val(Arr)>> }

(* req.body: absent, already parsed by the platform, or a string holding   *)
(* JSON text (a string body is always handed to JSON.parse)                *)
Bodies == {Undefined} \cup NonStrings \cup { Str(x) : x \in Texts }

Methods ==
  { Undefined, Str(<<"G", "E", "T">>), Str(<<"g", "e", "t">>),
    Str(<<"P", "O", "S", "T">>), Str(<<"p", "o", "s", "t">>),
    Str(<<"P", "U", "T">>), Str(<<"D", "E", "L", "E", "T", "E">>) }

Hosts == {Undefined, Str(<<"bot.example">>)}

Requests ==
  [method : Methods, body : Bodies, host : Hosts, hasWriteHead : BOOLEAN]

(* What the remote end of an outbound call can answer *)
Statuses == {200, 204, 400, 500}
ReplyTexts ==
  { JSONstringify(Obj([ok |-> Bool(TRUE)])), <<Junk>>, <<>> }

NoReply == [state |-> "none", status |-> 0, text |-> <<>>]

---------------------------------------------------------------------------
(* pc: where the invocation is (idle, entry, an await, done, rejected);    *)
(* req: the request the handler was invoked with; update: the local        *)
(* variable update, once the body has been read; calls: the outbound fetch *)
(* calls made so far, in order; reply: what the awaited fetch or text()    *)
(* promise settled with; responses: the responses written to res, in order *)
VARIABLES pc, req, update, calls, reply, responses

vars == <<pc, req, update, calls, reply, responses>>

NoRequest ==
  [method |-> Undefined, body |-> Undefined, host |-> Undefined,
   hasWriteHead |-> FALSE]

Init ==
  /\ pc = "idle"
  /\ req = NoRequest
  /\ update = Undefined
  /\ calls = <<>>
  /\ reply = NoReply
  /\ responses = <<>>

(* The platform invokes handler(req, res) *)
Invoke ==
  /\ pc = "idle"
  /\ req' \in Requests
  /\ pc' = "entry"
  /\ UNCHANGED <<update, calls, reply, responses>>

---------------------------------------------------------------------------
(* Values the handler computes *)

(* const method = (req.method || '').toUpperCase() *)
MethodOf(r) == ToUpperCase(OrElse(r.method, Str(<<>>)).s)

GET == <<"G", "E", "T">>
POST == <<"P", "O", "S", "T">>

(* let update = req.body; if it is a string, JSON.parse(update) *)
ParseBody(body) ==
  IF body.t = "string"
  THEN JSONparse(body.s)
  ELSE [threw |-> FALSE, v |-> body]

(* A check that leaves out !update *)
IsValidUpdateTypeofOnly(u) == Typeof(u) = "object"

(* the negation of: !update || typeof update !== 'object' *)
IsValidUpdate(u) == ~(~Truthy(u) \/ Typeof(u) # "object")

(* A warmup test that knows the number only *)
IsWarmNumberOnly(u) == Get(u, "update_id") = Num(0)

(* const isWarm = uid === 0 || uid === '0' *)
IsWarm(u) ==
  LET uid == Get(u, "update_id")
  IN uid = Num(0) \/ uid = Str(<<"0">>)

(* pq.invoice_payload || '' *)
RawPayload(pq) == OrElse(Get(pq, "invoice_payload"), Str(<<>>))

(* (pq.invoice_payload || '').trim() is a TypeError unless the value is a  *)
(* string: no other JSON value has a trim method                           *)
TrimThrows(pq) == RawPayload(pq).t # "string"

(* const body = { pre_checkout_query_id: pq.id, ok }, with error_message    *)
(* added when !ok                                                          *)
ApprovalBody(pq) ==
  LET payload == Trim(RawPayload(pq).s)
      ok == StartsWith(payload, PremiumPrefix)
  IN Obj([pre_checkout_query_id |-> Get(pq, "id"),
          ok |-> Bool(ok),
          error_message |-> IF ~ok THEN ErrorMessage ELSE Undefined])

ApprovalCall(pq) ==
  [api |-> "answerPreCheckoutQuery",
   host |-> Str(<<"api.telegram.org">>),
   body |-> JSONstringify(ApprovalBody(pq))]

DefaultHost == Str(<<"careeraibot.vercel.app">>)

(* A forward of req.body as it arrived instead of the parsed update *)
ForwardCallRawBody(r, u) ==
  [api |-> "webhook-handler",
   host |-> OrElse(r.host, DefaultHost),
   body |-> JSONstringify(r.body)]

(* fetch(`https://${host}/api/webhook-handler`, {body: JSON.stringify(update)}) *)
ForwardCall(r, u) ==
  [api |-> "webhook-handler",
   host |-> OrElse(r.host, DefaultHost),
   body |-> JSONstringify(u)]

OkBody(b) == JSONstringify(Obj([ok |-> Bool(b)]))

(* res.status(s).json(o), res.status(s).send(text), res.writeHead(s); res.end(text) *)
Respond(status, text) ==
  responses' = Append(responses, [status |-> status, body |-> text])

---------------------------------------------------------------------------
(* The handler from its entry to its first await, return or throw *)

(* if (method === 'GET') { res.status(200).json({ ok: true }); return; } *)
DoGet ==
  /\ pc = "entry"
  /\ MethodOf(req) = GET
  /\ Respond(200, OkBody(TRUE))
  /\ pc' = "done"
  /\ UNCHANGED <<req, update, calls, reply>>

(* if (method !== 'POST'): 405 through writeHead/end when res has          *)
(* writeHead, through status/json otherwise                                *)
DoMethodNotAllowed ==
  /\ pc = "entry"
  /\ MethodOf(req) # GET
  /\ MethodOf(req) # POST
  /\ IF req.hasWriteHead
     THEN Respond(405, JSONstringify(Obj([ok |-> Bool(FALSE)])))
     ELSE Respond(405, OkBody(FALSE))
  /\ pc' = "done"
  /\ UNCHANGED <<req, update, calls, reply>>

(* JSON.parse(update) throws: return res.status(400).json({ ok: false }) *)
DoParseError ==
  /\ pc = "entry"
  /\ MethodOf(req) = POST
  /\ ParseBody(req.body).threw
  /\ update' = req.body
  /\ Respond(400, OkBody(FALSE))
  /\ pc' = "done"
  /\ UNCHANGED <<req, calls, reply>>

(* if (!update || typeof update !== 'object') return 400 *)
DoInvalidBody ==
  /\ pc = "entry"
  /\ MethodOf(req) = POST
  /\ ~ParseBody(req.body).threw
  /\ update' = ParseBody(req.body).v
  /\ ~IsValidUpdate(update')
  /\ Respond(400, OkBody(FALSE))
  /\ pc' = "done"
  /\ UNCHANGED <<req, calls, reply>>

(* if (isWarm) { res.status(200).send(JSON.stringify({ ok: true })); return; } *)
DoWarm ==
  /\ pc = "entry"
  /\ MethodOf(req) = POST
  /\ ~ParseBody(req.body).threw
  /\ update' = ParseBody(req.body).v
  /\ IsValidUpdate(update')
  /\ IsWarm(update')
  /\ Respond(200, JSONstringify(Obj([ok |-> Bool(TRUE)])))
  /\ pc' = "done"
  /\ UNCHANGED <<req, calls, reply>>

(* if (pq) { ... await fetch(.../answerPreCheckoutQuery, ...) *)
DoPreCheckout ==
  /\ pc = "entry"
  /\ MethodOf(req) = POST
  /\ ~ParseBody(req.body).threw
  /\ update' = ParseBody(req.body).v
  /\ IsValidUpdate(update')
  /\ ~IsWarm(update')
  /\ LET pq == Get(update', "pre_checkout_query")
     IN /\ Truthy(pq)
        /\ ~TrimThrows(pq)
        /\ calls' = Append(calls, ApprovalCall(pq))
  /\ pc' = "awaitApprovalFetch"
  /\ UNCHANGED <<req, reply, responses>>

(* if (pq) { ... (pq.invoice_payload || '').trim() throws a TypeError      *)
(* outside any try: the handler's promise rejects, res is untouched        *)
DoPreCheckoutThrows ==
  /\ pc = "entry"
  /\ MethodOf(req) = POST
  /\ ~ParseBody(req.body).threw
  /\ update' = ParseBody(req.body).v
  /\ IsValidUpdate(update')
  /\ ~IsWarm(update')
  /\ LET pq == Get(update', "pre_checkout_query")
     IN /\ Truthy(pq)
        /\ TrimThrows(pq)
  /\ pc' = "rejected"
  /\ UNCHANGED <<req, calls, reply, responses>>

(* no pq: await fetch(url, { body: JSON.stringify(update) }) *)
DoForward ==
  /\ pc = "entry"
  /\ MethodOf(req) = POST
  /\ ~ParseBody(req.body).threw
  /\ update' = ParseBody(req.body).v
  /\ IsValidUpdate(update')
  /\ ~IsWarm(update')
  /\ ~Truthy(Get(update', "pre_checkout_query"))
  /\ calls' = Append(calls, ForwardCall(req, update'))
  /\ pc' = "awaitForwardFetch"
  /\ UNCHANGED <<req, reply, responses>>

---------------------------------------------------------------------------
(* The pre-checkout branch after its awaits *)

IsOk(status) == status \in 200..299

(* fetch resolved, r.ok: log, then return res.status(200).json({ ok: true }) *)
ApprovalFetchOk ==
  /\ pc = "awaitApprovalFetch"
  /\ \E s \in Statuses :
       /\ IsOk(s)
       /\ reply' = [state |-> "headers", status |-> s, text |-> <<>>]
  /\ Respond(200, OkBody(TRUE))
  /\ pc' = "done"
  /\ UNCHANGED <<req, update, calls>>

(* fetch resolved, !r.ok: console.warn(..., r.status, await r.text()) *)
ApprovalFetchNotOk ==
  /\ pc = "awaitApprovalFetch"
  /\ \E s \in Statuses :
       /\ ~IsOk(s)
       /\ reply' = [state |-> "headers", status |-> s, text |-> <<>>]
  /\ pc' = "awaitApprovalText"
  /\ UNCHANGED <<req, update, calls, responses>>

(* An approval failure surfaced to the caller as 502 *)
ApprovalFetchFailsSurfaced ==
  /\ pc = "awaitApprovalFetch"
  /\ reply' = [state |-> "error", status |-> 0, text |-> <<>>]
  /\ Respond(502, OkBody(FALSE))
  /\ pc' = "done"
  /\ UNCHANGED <<req, update, calls>>

(* fetch rejected: catch (e) logs, then return res.status(200).json({ ok: true }) *)
ApprovalFetchFails ==
  /\ pc = "awaitApprovalFetch"
  /\ reply' = [state |-> "error", status |-> 0, text |-> <<>>]
  /\ Respond(200, OkBody(TRUE))
  /\ pc' = "done"
  /\ UNCHANGED <<req, update, calls>>

(* r.text() resolved (warn) or rejected (catch): then 200 {ok:true} *)
ApprovalTextSettles ==
  /\ pc = "awaitApprovalText"
  /\ \/ \E x \in ReplyTexts :
          reply' = [state |-> "body", status |-> reply.status, text |-> x]
     \/ reply' = [state |-> "bodyError", status |-> reply.status, text |-> <<>>]
  /\ Respond(200, OkBody(TRUE))
  /\ pc' = "done"
  /\ UNCHANGED <<req, update, calls>>

---------------------------------------------------------------------------
(* The forwarding branch after its awaits *)

(* const proxyRes = await fetch(url, ...) resolved; next: await proxyRes.text() *)
ForwardFetchResolves ==
  /\ pc = "awaitForwardFetch"
  /\ \E s \in Statuses :
       reply' = [state |-> "headers", status |-> s, text |-> <<>>]
  /\ pc' = "awaitForwardText"
  /\ UNCHANGED <<req, update, calls, responses>>

(* A failed forward that is tried a second time *)
ForwardFetchFailsRetried ==
  /\ pc = "awaitForwardFetch"
  /\ IF Len(calls) < 2
     THEN /\ calls' = Append(calls, calls[Len(calls)])
          /\ UNCHANGED <<pc, reply, responses>>
     ELSE /\ reply' = [state |-> "error", status |-> 0, text |-> <<>>]
          /\ Respond(502, OkBody(FALSE))
          /\ pc' = "done"
          /\ UNCHANGED calls
  /\ UNCHANGED <<req, update>>

(* fetch rejected: catch (e) { res.status(502).json({ ok: false }) } *)
ForwardFetchFails ==
  /\ pc = "awaitForwardFetch"
  /\ reply' = [state |-> "error", status |-> 0, text |-> <<>>]
  /\ Respond(502, OkBody(FALSE))
  /\ pc' = "done"
  /\ UNCHANGED <<req, update, calls>>

(* A relay that answers 200 whatever the downstream status *)
ForwardTextResolvesAlways200 ==
  /\ pc = "awaitForwardText"
  /\ \E x \in ReplyTexts :
       /\ reply' = [state |-> "body", status |-> reply.status, text |-> x]
       /\ Respond(200, x)
  /\ pc' = "done"
  /\ UNCHANGED <<req, update, calls>>

(* text read: res.status(proxyRes.status).send(text) *)
ForwardTextResolves ==
  /\ pc = "awaitForwardText"
  /\ \E x \in ReplyTexts :
       /\ reply' = [state |-> "body", status |-> reply.status, text |-> x]
       /\ Respond(reply.status, x)
  /\ pc' = "done"
  /\ UNCHANGED <<req, update, calls>>

(* proxyRes.text() rejected: catch (e) { res.status(502).json({ ok: false }) } *)
ForwardTextFails ==
  /\ pc = "awaitForwardText"
  /\ reply' = [state |-> "bodyError", status |-> reply.status, text |-> <<>>]
  /\ Respond(502, OkBody(FALSE))
  /\ pc' = "done"
  /\ UNCHANGED <<req, update, calls>>

---------------------------------------------------------------------------
Next ==
  \/ Invoke
  \/ DoGet
  \/ DoMethodNotAllowed
  \/ DoParseError
  \/ DoInvalidBody
  \/ DoWarm
  \/ DoPreCheckout
  \/ DoPreCheckoutThrows
  \/ DoForward
  \/ ApprovalFetchOk
  \/ ApprovalFetchNotOk
  \/ ApprovalFetchFails
  \/ ApprovalTextSettles
  \/ ForwardFetchResolves
  \/ ForwardFetchFails
  \/ ForwardTextResolves
  \/ ForwardTextFails

Spec == Init /\ [][Next]_vars

TypeOK ==
  /\ pc \in {"idle", "entry", "awaitApprovalFetch", "awaitApprovalText",
             "awaitForwardFetch", "awaitForwardText", "done", "rejected"}
  /\ Len(responses) <= 2
  /\ Len(calls) <= 2

---------------------------------------------------------------------------
(* Vocabulary of the properties, stated on the request and on what the     *)
(* handler did to the outside world                                        *)

Finished == pc \in {"done", "rejected"}
Started == pc \notin {"idle", "entry"}

GetMethods == {Str(<<"G", "E", "T">>), Str(<<"g", "e", "t">>)}
PostMethods == {Str(<<"P", "O", "S", "T">>), Str(<<"p", "o", "s", "t">>)}

(* The inbound body as data *)
Inbound == IF req.body.t = "string" THEN JSONparse(req.body.s)
           ELSE [threw |-> FALSE, v |-> req.body]

InboundIsUpdate == req.method \in PostMethods /\ ~Inbound.threw /\ Inbound.v.t = "object"
InboundUid == Get(Inbound.v, "update_id")
InboundPq == Get(Inbound.v, "pre_checkout_query")
InboundIsWarm == InboundUid \in {Num(0), Str(<<"0">>)}
InboundPayload == Get(InboundPq, "invoice_payload")

ApprovalCalls == SelectSeq(calls, LAMBDA c : c.api = "answerPreCheckoutQuery")
ForwardCalls == SelectSeq(calls, LAMBDA c : c.api = "webhook-handler")

Answer(status, b) == [status |-> status, body |-> <<Val(Obj([ok |-> Bool(b)]))>>]

(* s has the premium prefix at position i *)
HasPrefixAt(s, i) ==
  /\ i + Len(PremiumPrefix) - 1 <= Len(s)
  /\ \A j \in 1..Len(PremiumPrefix) : s[i + j - 1] = PremiumPrefix[j]

(* s has the premium prefix after leading whitespace only *)
HasPrefixAfterSpace(s) ==
  \E i \in 1..(Len(s) + 1) :
    /\ \A j \in 1..(i - 1) : s[j] \in WhiteSpace
    /\ HasPrefixAt(s, i)

(* The content of the approval call that was made *)
ApprovalSent == JSONparse(ApprovalCalls[1].body).v

---------------------------------------------------------------------------
(* C1: every invocation of the handler sends exactly one response: never   *)
(* two at any moment, and one once the handler has finished.               *)
RespondsExactlyOnce ==
  /\ Len(responses) <= 1
  /\ Finished => Len(responses) = 1

(* C2: a POST with a non-zero update_id and a pre_checkout_query makes     *)
(* exactly one approval call carrying the query's id and never a           *)
(* downstream call.                                                        *)
PreCheckoutAnsweredNotForwarded ==
  (InboundIsUpdate /\ ~InboundIsWarm /\ Truthy(InboundPq)) =>
    /\ Len(ForwardCalls) = 0
    /\ Len(ApprovalCalls) <= 1
    /\ Finished =>
         /\ Len(ApprovalCalls) = 1
         /\ Get(ApprovalSent, "pre_checkout_query_id") = Get(InboundPq, "id")

(* C3, as stated: the approval call carries ok:true exactly when           *)
(* invoice_payload itself starts with the prefix, and error_message        *)
(* exactly when ok is false.                                               *)
ApprovalOkIffPayloadHasPrefix ==
  Len(ApprovalCalls) >= 1 =>
    /\ Get(ApprovalSent, "ok") =
         Bool(InboundPayload.t = "string" /\ HasPrefixAt(InboundPayload.s, 1))
    /\ (Get(ApprovalSent, "error_message") # Undefined)
         <=> (Get(ApprovalSent, "ok") = Bool(FALSE))

(* C3, amended: every approval call carries ok:true exactly when           *)
(* invoice_payload is a string that starts with the prefix once its        *)
(* leading whitespace is removed, and error_message exactly when ok is     *)
(* false.                                                                  *)
ApprovalOkIffTrimmedPayloadHasPrefix ==
  Len(ApprovalCalls) >= 1 =>
    /\ Get(ApprovalSent, "ok") =
         Bool(InboundPayload.t = "string" /\ HasPrefixAfterSpace(InboundPayload.s))
    /\ (Get(ApprovalSent, "error_message") # Undefined)
         <=> (Get(ApprovalSent, "ok") = Bool(FALSE))

ApprovedPaddedPayload ==
  /\ Len(ApprovalCalls) = 1
  /\ InboundPayload.t = "string"
  /\ Len(InboundPayload.s) > 0
  /\ Head(InboundPayload.s) \in WhiteSpace
  /\ Get(ApprovalSent, "ok") = Bool(TRUE)
  /\ Get(ApprovalSent, "error_message") = Undefined

(* C4: once the approval call has been made, the caller gets 200 {ok:true} *)
(* whatever the call's outcome: success, non-2xx reply, network failure.   *)
ApprovalOutcomeNotSurfaced ==
  (pc = "done" /\ Len(ApprovalCalls) >= 1) => responses = <<Answer(200, TRUE)>>

ApprovalFailedAnswered200 ==
  /\ pc = "done"
  /\ Len(ApprovalCalls) = 1
  /\ reply.state = "error"
  /\ responses = <<Answer(200, TRUE)>>

(* C5: a POST whose update_id is 0 or "0" is answered 200 {ok:true} and    *)
(* makes no outbound call, with or without a pre_checkout_query.           *)
WarmupAnsweredWithoutCalls ==
  (InboundIsUpdate /\ InboundIsWarm) =>
    /\ calls = <<>>
    /\ Started => (pc = "done" /\ responses = <<Answer(200, TRUE)>>)

WarmupWithPreCheckoutDone ==
  /\ pc = "done"
  /\ InboundIsUpdate
  /\ InboundUid = Str(<<"0">>)
  /\ Truthy(InboundPq)
  /\ calls = <<>>
  /\ responses = <<Answer(200, TRUE)>>

MirrorsDownstream ==
  (pc = "done" /\ Len(ForwardCalls) >= 1 /\ reply.state = "body") =>
    responses = <<[status |-> reply.status, body |-> reply.text]>>

MirroredServerError ==
  /\ pc = "done"
  /\ Len(ForwardCalls) = 1
  /\ reply.state = "body"
  /\ reply.status = 500
  /\ reply.text = <<Junk>>
  /\ responses = <<[status |-> 500, body |-> <<Junk>>]>>

(* C8: when the downstream call fails, the caller gets 502 {ok:false} and  *)
(* exactly one downstream attempt has been made.                           *)
ForwardFailureIs502NoRetry ==
  (pc = "done" /\ Len(ForwardCalls) >= 1 /\ reply.state = "error") =>
    /\ responses = <<Answer(502, FALSE)>>
    /\ Len(calls) = 1

ForwardFailedAnswered502 ==
  /\ pc = "done"
  /\ Len(ForwardCalls) = 1
  /\ reply.state = "error"
  /\ responses = <<Answer(502, FALSE)>>

(* C9: a POST whose body does not parse, or is missing, null or not an     *)
(* object after parsing, is answered 400 {ok:false} with no outbound call. *)
MalformedBodyIs400 ==
  (/\ req.method \in PostMethods
   /\ \/ Inbound.threw
      \/ Inbound.v.t \in {"undefined", "null", "number", "boolean", "string"}) =>
    /\ calls = <<>>
    /\ Started => (pc = "done" /\ responses = <<Answer(400, FALSE)>>)

NullBodyAnswered400 ==
  /\ pc = "done"
  /\ req.method \in PostMethods
  /\ ~Inbound.threw
  /\ Inbound.v = Null
  /\ calls = <<>>
  /\ responses = <<Answer(400, FALSE)>>

(* C10: a request whose method is not POST makes no outbound call and is   *)
(* answered by its method alone: GET 200 {ok:true} whatever the body, any  *)
(* other method 405 {ok:false}.                                            *)
NonPostDecidedByMethod ==
  (pc # "idle" /\ req.method \notin PostMethods) =>
    /\ calls = <<>>
    /\ Started =>
         /\ pc = "done"
         /\ responses =
              <<IF req.method \in GetMethods THEN Answer(200, TRUE)
                                             ELSE Answer(405, FALSE)>>

GetWithPreCheckoutBodyDone ==
  /\ pc = "done"
  /\ req.method \in GetMethods
  /\ req.body.t = "object"
  /\ Truthy(Get(req.body, "pre_checkout_query"))
  /\ calls = <<>>
  /\ responses = <<Answer(200, TRUE)>>

====
